---- MODULE Spec2Model ----
(***************************************************************************)
(* Model of the record-submission API of src/uploads/server.js: the        *)
(* schema-driven validator (validate, validateFile), the query builder     *)
(* (buildInsertQuery), the type mapper, the startup table creation and the *)
(* transactional save handler (app.post("/api/save")).                     *)
(*                                                                         *)
(* JavaScript strings are sequences of one-character strings, so that      *)
(* trimming, lower-casing, regular expressions and digit counting are      *)
(* computed, not assumed.                                                  *)
(***************************************************************************)
EXTENDS Integers, Sequences, FiniteSets, TLC

\* ------------------------------------------------------------------ strings

Digits == <<"0", "1", "2", "3", "4", "5", "6", "7", "8", "9">>

IsDigit(c) == \E i \in 1..10 : Digits[i] = c

DigitVal(c) == (CHOOSE i \in 1..10 : Digits[i] = c) - 1

\* \s of a JavaScript regular expression and the white space trim() removes,
\* restricted to the characters the inputs use.
IsSpace(c) == c \in {" ", "\t"}

IsBlank(s) == \A i \in 1..Len(s) : IsSpace(s[i])

RECURSIVE TrimStart(_)
TrimStart(s) ==
    IF s # <<>> /\ IsSpace(Head(s)) THEN TrimStart(Tail(s)) ELSE s

RECURSIVE TrimEnd(_)
TrimEnd(s) ==
    IF s # <<>> /\ IsSpace(s[Len(s)]) THEN TrimEnd(SubSeq(s, 1, Len(s) - 1)) ELSE s

\* String.prototype.trim
Trim(s) == TrimEnd(TrimStart(s))

\* s.replace(/\s/g, '')
RemoveSpaces(s) == SelectSeq(s, LAMBDA c : ~IsSpace(c))

\* s.replace(/[^\d]/g, '')
OnlyDigits(s) == SelectSeq(s, IsDigit)

UpperLetters == <<"A", "B", "C", "D", "E", "F", "G", "H", "I", "J", "K", "L", "M",
                  "N", "O", "P", "Q", "R", "S", "T", "U", "V", "W", "X", "Y", "Z">>

LowerLetters == <<"a", "b", "c", "d", "e", "f", "g", "h", "i", "j", "k", "l", "m",
                  "n", "o", "p", "q", "r", "s", "t", "u", "v", "w", "x", "y", "z">>

LowerChar(c) ==
    IF \E i \in 1..26 : UpperLetters[i] = c
    THEN LowerLetters[CHOOSE i \in 1..26 : UpperLetters[i] = c]
    ELSE c

\* String.prototype.toLowerCase
ToLowerCase(s) == [i \in 1..Len(s) |-> LowerChar(s[i])]

\* String.prototype.endsWith
EndsWith(s, suffix) ==
    /\ Len(suffix) <= Len(s)
    /\ SubSeq(s, Len(s) - Len(suffix) + 1, Len(s)) = suffix

\* String.prototype.startsWith
StartsWith(s, prefix) ==
    /\ Len(prefix) <= Len(s)
    /\ SubSeq(s, 1, Len(prefix)) = prefix

\* String.prototype.includes for a one-character needle
Includes(s, c) == \E i \in 1..Len(s) : s[i] = c

\* The index of the first occurrence of c in s, or 0
IndexOf(s, c) ==
    IF Includes(s, c) THEN CHOOSE i \in 1..Len(s) : s[i] = c /\ \A j \in 1..(i - 1) : s[j] # c
    ELSE 0

\* s.replace(c, "") : the first occurrence only
RemoveFirst(s, c) ==
    LET i == IndexOf(s, c)
    IN  IF i = 0 THEN s ELSE SubSeq(s, 1, i - 1) \o SubSeq(s, i + 1, Len(s))

AllDigits(s) == \A i \in 1..Len(s) : IsDigit(s[i])

\* NaN of a JavaScript number that the model otherwise keeps as an integer
NaN == -1

RECURSIVE DigitsToNat(_)
DigitsToNat(s) ==
    IF s = <<>> THEN 0 ELSE 10 * DigitsToNat(SubSeq(s, 1, Len(s) - 1)) + DigitVal(s[Len(s)])

RECURSIVE LeadingDigits(_)
LeadingDigits(s) ==
    IF s # <<>> /\ IsDigit(Head(s)) THEN <<Head(s)>> \o LeadingDigits(Tail(s)) ELSE <<>>

\* parseInt(s, 10) of a non-negative configuration string (a limit or a scale):
\* the leading digits, NaN when there are none.
ParseIntConfig(s) ==
    LET d == LeadingDigits(TrimStart(s))
    IN  IF d = <<>> THEN NaN ELSE DigitsToNat(d)

\* parseInt(s) || dflt : NaN and 0 are falsy
ParseIntOr(s, dflt) ==
    LET v == ParseIntConfig(s)
    IN  IF v = NaN \/ v = 0 THEN dflt ELSE v

RECURSIVE NatToDigits(_)
NatToDigits(n) ==
    IF n < 10 THEN <<Digits[n + 1]>> ELSE NatToDigits(n \div 10) \o <<Digits[(n % 10) + 1]>>

\* ------------------------------------------------------------------ values

\* A JavaScript value of the request body: a string, a number (JSON bodies),
\* null, or undefined (what body[name] is when the key is missing).
StrV(s) == [t |-> "string", s |-> s, n |-> 0]

NumV(k) == [t |-> "number", s |-> <<>>, n |-> k]

NullV == [t |-> "null", s |-> <<>>, n |-> 0]

Undefined == [t |-> "undefined", s |-> <<>>, n |-> 0]

\* String(value)
String(v) ==
    CASE v.t = "string" -> v.s
      [] v.t = "number" -> NatToDigits(v.n)
      [] v.t = "null" -> <<"n", "u", "l", "l">>
      [] OTHER -> <<"u", "n", "d", "e", "f", "i", "n", "e", "d">>

\* The body and the file map are objects whose keys keep their arrival order:
\* sequences of [k, v] pairs with distinct keys.
Keys(obj) == [i \in 1..Len(obj) |-> obj[i].k]

Has(obj, name) == \E i \in 1..Len(obj) : obj[i].k = name

\* body[name] : undefined when the key is missing
Get(obj, name) ==
    IF Has(obj, name) THEN obj[CHOOSE i \in 1..Len(obj) : obj[i].k = name].v ELSE Undefined

\* files[name][0] of a present file key
GetFile(files, name) == files[CHOOSE i \in 1..Len(files) : files[i].k = name].v

\* ------------------------------------------------------------------ schema

NoFileConfig == [has |-> FALSE, maxSize |-> 0, all |-> TRUE, extensions |-> <<>>]

FileConfig(maxSize, extensions) ==
    [has |-> TRUE, maxSize |-> maxSize, all |-> FALSE, extensions |-> extensions]

FileConfigAll(maxSize) ==
    [has |-> TRUE, maxSize |-> maxSize, all |-> TRUE, extensions |-> <<>>]

Field(name, type, limit, scale, required, allowNegative, fileConfig) ==
    [name |-> name, type |-> type, limit |-> limit, scale |-> scale,
     required |-> required, unique |-> FALSE, allowNegative |-> allowNegative,
     fileConfig |-> fileConfig]

\* const schema = { name, phone, email, ring_size, ss, caret, aadhar }
schema ==
    << Field("name", "text", <<"2", "0">>, <<>>, TRUE, TRUE, NoFileConfig),
       Field("phone", "phone", <<"1", "0">>, <<>>, TRUE, FALSE, NoFileConfig),
       Field("email", "email", <<>>, <<>>, FALSE, FALSE, NoFileConfig),
       Field("ring_size", "amount", <<"1", "0">>, <<"2">>, TRUE, TRUE, NoFileConfig),
       Field("ss", "photo", <<>>, <<>>, TRUE, FALSE, FileConfigAll(10)),
       Field("caret", "number", <<"2">>, <<>>, TRUE, TRUE, NoFileConfig),
       Field("aadhar", "photo", <<>>, <<>>, TRUE, FALSE, FileConfigAll(10)) >>

IsFileType(type) == type = "photo" \/ type = "file"

FieldNames(sch) == [i \in 1..Len(sch) |-> sch[i].name]

Declared(sch, key) == \E i \in 1..Len(sch) : sch[i].name = key

FieldOf(sch, key) == sch[CHOOSE i \in 1..Len(sch) : sch[i].name = key]

\* The property names every object literal inherits from Object.prototype:
\* schema[key] is a function or an object, hence truthy, for each of them.
ObjectPrototypeKeys ==
    {"constructor", "toString", "valueOf", "hasOwnProperty", "isPrototypeOf",
     "propertyIsEnumerable", "toLocaleString", "__proto__"}

\* The truthiness of schema[key]
SchemaLookupTruthy(sch, key) == Declared(sch, key) \/ key \in ObjectPrototypeKeys

\* ------------------------------------------------------------------ type mapper

\* typeMap.number
TypeMapNumber(field) ==
    LET digits == ParseIntOr(field.limit, 10)
    IN  IF digits <= 9 THEN "INTEGER"
        ELSE IF digits <= 18 THEN "BIGINT"
        ELSE "NUMERIC(" \o ToString(digits) \o ")"

\* ------------------------------------------------------------------ numbers

\* A non-negative integer too wide for the checker's integers is kept as its
\* decimal digits (no leading zero).
RECURSIVE StripLeadingZeros(_)
StripLeadingZeros(d) ==
    IF Len(d) > 1 /\ Head(d) = "0" THEN StripLeadingZeros(Tail(d)) ELSE d

RECURSIVE StripTrailingZeros(_)
StripTrailingZeros(d) ==
    IF Len(d) > 1 /\ d[Len(d)] = "0" THEN StripTrailingZeros(SubSeq(d, 1, Len(d) - 1)) ELSE d

AllNines(d) == \A i \in 1..Len(d) : d[i] = "9"

PowerOfTen(k) == <<"1">> \o [i \in 1..k |-> "0"]

\* Math.abs(parseInt(strValue)) of a string matching /^-?\d+$/, as the decimal
\* digits of the double it yields. Up to 15 digits a double is exact; a power
\* of ten up to 10^22 is exact; 16 or more nines round up to the next power of
\* ten. The value sets below draw wide literals from these shapes only (any
\* other literal of 16 digits or more is taken as exact).
AbsParseInt(strValue) ==
    LET d == StripLeadingZeros(IF Head(strValue) = "-" THEN Tail(strValue) ELSE strValue)
    IN  IF Len(d) >= 16 /\ AllNines(d) THEN PowerOfTen(Len(d)) ELSE d

\* String(numValue): Number::toString switches to exponent notation at 1e21
NumberToString(d) ==
    IF Len(d) <= 21 THEN d
    ELSE LET m == StripTrailingZeros(d)
         IN  <<Head(m)>> \o (IF Len(m) > 1 THEN <<".">> \o Tail(m) ELSE <<>>)
                \o <<"e", "+">> \o NatToDigits(Len(d) - 1)

RECURSIVE LexGreater(_, _)
LexGreater(a, b) ==
    IF a = <<>> THEN FALSE
    ELSE IF DigitVal(Head(a)) # DigitVal(Head(b)) THEN DigitVal(Head(a)) > DigitVal(Head(b))
    ELSE LexGreater(Tail(a), Tail(b))

\* a > b of two non-negative integers given by their digits
DecGreater(a, b) ==
    IF Len(a) # Len(b) THEN Len(a) > Len(b) ELSE LexGreater(a, b)

\* 2147483647
Int32Max == <<"2", "1", "4", "7", "4", "8", "3", "6", "4", "7">>

\* The double the literal 9223372036854775807 denotes: 2^63
Int64MaxDouble ==
    <<"9", "2", "2", "3", "3", "7", "2", "0", "3", "6", "8", "5", "4", "7", "7", "5", "8", "0", "8">>

\* ------------------------------------------------------------------ patterns

\* /^[^\s@]+@[^\s@]+\.[^\s@]+$/
EmailRegexTest(s) ==
    /\ \A i \in 1..Len(s) : ~IsSpace(s[i])
    /\ Cardinality({i \in 1..Len(s) : s[i] = "@"}) = 1
    /\ LET at == IndexOf(s, "@")
       IN  /\ at > 1
           /\ \E j \in (at + 2)..(Len(s) - 1) : s[j] = "."

IsPhoneClass(c) == IsDigit(c) \/ IsSpace(c) \/ c \in {"-", "(", ")"}

\* The pattern with the plus sign inside the counted run: /^(?=.{10,15}$)[+]?[\d\s\-\(\)]+$/
PhoneRegexTestPlusCounted(s) ==
    LET rest == IF s # <<>> /\ Head(s) = "+" THEN Tail(s) ELSE s
    IN  /\ Len(s) >= 10
        /\ Len(s) <= 15
        /\ rest # <<>>
        /\ \A i \in 1..Len(rest) : IsPhoneClass(rest[i])

\* /^[+]?[\d\s\-\(\)]{10,15}$/
PhoneRegexTest(s) ==
    LET rest == IF s # <<>> /\ Head(s) = "+" THEN Tail(s) ELSE s
    IN  /\ Len(rest) >= 10
        /\ Len(rest) <= 15
        /\ \A i \in 1..Len(rest) : IsPhoneClass(rest[i])

\* /^-?\d+(\.\d+)?$/
NumberRegexTest(s) ==
    LET u == IF s # <<>> /\ Head(s) = "-" THEN Tail(s) ELSE s
        dot == IndexOf(u, ".")
    IN  IF dot = 0 THEN u # <<>> /\ AllDigits(u)
        ELSE /\ dot > 1
             /\ dot < Len(u)
             /\ AllDigits(SubSeq(u, 1, dot - 1))
             /\ AllDigits(SubSeq(u, dot + 1, Len(u)))

IsLetter(c) == (\E i \in 1..26 : UpperLetters[i] = c) \/ (\E i \in 1..26 : LowerLetters[i] = c)

SpecialSchemes ==
    { <<"h", "t", "t", "p">>, <<"h", "t", "t", "p", "s">>, <<"f", "t", "p">>,
      <<"w", "s">>, <<"w", "s", "s">> }

RECURSIVE StripSlashes(_)
StripSlashes(s) ==
    IF s # <<>> /\ Head(s) \in {"/", "\\"} THEN StripSlashes(Tail(s)) ELSE s

\* new URL(strValue) does not throw: a scheme, and a host when the scheme is a
\* special one. (The URL values drawn below are of these plain shapes.)
UrlParses(s) ==
    LET colon == IndexOf(s, ":")
    IN  /\ colon > 1
        /\ IsLetter(s[1])
        /\ \A i \in 2..(colon - 1) : IsLetter(s[i]) \/ IsDigit(s[i]) \/ s[i] \in {"+", "-", "."}
        /\ \A i \in 1..Len(s) : ~IsSpace(s[i])
        /\ (ToLowerCase(SubSeq(s, 1, colon - 1)) \in SpecialSchemes
              => StripSlashes(SubSeq(s, colon + 1, Len(s))) # <<>>)

TwoDigitIn(s, lo, hi) ==
    /\ Len(s) = 2
    /\ AllDigits(s)
    /\ DigitsToNat(s) >= lo
    /\ DigitsToNat(s) <= hi

IsoDate(s) ==
    /\ Len(s) = 10
    /\ AllDigits(SubSeq(s, 1, 4))
    /\ s[5] = "-"
    /\ TwoDigitIn(SubSeq(s, 6, 7), 1, 12)
    /\ s[8] = "-"
    /\ TwoDigitIn(SubSeq(s, 9, 10), 1, 28)

IsoTime(s) ==
    /\ Len(s) = 5
    /\ TwoDigitIn(SubSeq(s, 1, 2), 0, 23)
    /\ s[3] = ":"
    /\ TwoDigitIn(SubSeq(s, 4, 5), 0, 59)

\* !isNaN(new Date(s).getTime()): the ISO forms YYYY-MM-DD and YYYY-MM-DDTHH:MM
\* parse; the empty string, white space and text without digits do not. (The
\* date values drawn below are of these shapes; Date.parse of other text is
\* implementation-defined.)
DateParses(s) ==
    \/ IsoDate(s)
    \/ /\ Len(s) = 16
       /\ IsoDate(SubSeq(s, 1, 10))
       /\ s[11] = "T"
       /\ IsoTime(SubSeq(s, 12, 16))

\* ------------------------------------------------------------------ validate

\* A template literal's text of a string value
RECURSIVE Text(_)
Text(s) == IF s = <<>> THEN "" ELSE Head(s) \o Text(Tail(s))

\* The null that validate and validateFile return when nothing is wrong
NoError == [error |-> "", field |-> ""]

Err(message, name) == [error |-> message, field |-> name]

MegaByte == 1048576

\* fieldConfig.limit || 10, as the number the multiplication makes of it
FileLimitMB(fieldConfig) ==
    IF fieldConfig.limit = <<>> THEN 10
    ELSE IF AllDigits(fieldConfig.limit) THEN DigitsToNat(fieldConfig.limit)
    ELSE NaN

\* The text of fieldConfig.limit || 10 in the message
FileLimitText(fieldConfig) ==
    IF fieldConfig.limit = <<>> THEN "10" ELSE Text(fieldConfig.limit)

\* extensions.map(e => e.replace('.', '')).join(', ')
RECURSIVE AllowedText(_, _)
AllowedText(extensions, i) ==
    IF i > Len(extensions) THEN ""
    ELSE Text(RemoveFirst(extensions[i], ".")) \o (IF i < Len(extensions) THEN ", " ELSE "")
            \o AllowedText(extensions, i + 1)

\* validateFile(file, fieldConfig) of a present file: the message, "" for null
validateFile(file, fieldConfig) ==
    LET limitMB == FileLimitMB(fieldConfig)
        fileName == ToLowerCase(file.originalname)
        extensions == fieldConfig.fileConfig.extensions
        isValid == \E i \in 1..Len(extensions) : EndsWith(fileName, ToLowerCase(extensions[i]))
    IN  IF limitMB # NaN /\ file.size > limitMB * MegaByte
        THEN "File size exceeds " \o FileLimitText(fieldConfig) \o "MB limit"
        ELSE IF fieldConfig.fileConfig.has /\ ~fieldConfig.fileConfig.all /\ ~isValid
        THEN "File type not allowed. Allowed types: " \o AllowedText(extensions, 1)
        ELSE ""

\* The emptiness test without the trim: value === undefined || value === null || String(value) === ""
IsEmptyValueUntrimmed(value) ==
    value.t = "undefined" \/ value.t = "null" \/ String(value) = <<>>

\* value === undefined || value === null || String(value).trim() === ""
IsEmptyValue(value) ==
    value.t = "undefined" \/ value.t = "null" \/ Trim(String(value)) = <<>>

\* The number-range rules of a number field
ValidateNumberRange(name, field, strValue) ==
    LET numValue == AbsParseInt(strValue)
        maxDigits == ParseIntOr(field.limit, 10)
    IN  IF Len(NumberToString(numValue)) > maxDigits
        THEN Err(name \o " exceeds " \o ToString(maxDigits) \o " digits", name)
        ELSE IF maxDigits <= 9 /\ DecGreater(numValue, Int32Max)
        THEN Err(name \o " exceeds INTEGER maximum value", name)
        ELSE IF maxDigits <= 18 /\ DecGreater(numValue, Int64MaxDouble)
        THEN Err(name \o " exceeds BIGINT maximum value", name)
        ELSE NoError

\* The precision rules of an amount field
ValidateAmount(name, field, strValue) ==
    LET unsigned == RemoveFirst(strValue, "-")
        dot == IndexOf(unsigned, ".")
        integerPart == IF dot = 0 THEN unsigned ELSE SubSeq(unsigned, 1, dot - 1)
        decimalPart == IF dot = 0 THEN <<>> ELSE SubSeq(unsigned, dot + 1, Len(unsigned))
        limitInt == IF field.limit = <<>> THEN 10 ELSE ParseIntConfig(field.limit)
        maxDecimal == IF field.scale = <<>> THEN 2 ELSE ParseIntConfig(field.scale)
        maxInteger == IF limitInt = NaN \/ maxDecimal = NaN THEN NaN ELSE limitInt - maxDecimal
    IN  IF maxInteger # NaN /\ Len(integerPart) > maxInteger
        THEN Err(name \o " integer part exceeds " \o ToString(maxInteger) \o " digits", name)
        ELSE IF maxDecimal # NaN /\ Len(decimalPart) > maxDecimal
        THEN Err(name \o " decimal part exceeds " \o ToString(maxDecimal) \o " places", name)
        ELSE IF ~field.allowNegative /\ StartsWith(strValue, <<"-">>)
        THEN Err(name \o " must be a positive amount", name)
        ELSE NoError

\* The numeric rules of a number or amount field
ValidateNumeric(name, field, strValue) ==
    IF ~NumberRegexTest(strValue)
    THEN Err(name \o " must be a valid number", name)
    ELSE IF field.type = "number" /\ Includes(strValue, ".")
    THEN Err(name \o " must be an integer (no decimals)", name)
    ELSE IF ~field.allowNegative /\ StartsWith(strValue, <<"-">>)
    THEN Err(name \o " must be a positive number", name)
    ELSE IF field.type = "number" THEN ValidateNumberRange(name, field, strValue)
    ELSE ValidateAmount(name, field, strValue)

\* The phone rules
ValidatePhone(name, field, strValue) ==
    LET maxLength == ParseIntOr(field.limit, 15)
    IN  IF ~PhoneRegexTest(RemoveSpaces(strValue))
        THEN Err(name \o " must be a valid phone number", name)
        ELSE IF Len(OnlyDigits(strValue)) > maxLength
        THEN Err(name \o " exceeds " \o ToString(maxLength) \o " digits", name)
        ELSE NoError

\* The text length rule
ValidateText(name, field, strValue) ==
    LET maxLength == ParseIntConfig(field.limit)
    IN  IF field.limit # <<>> /\ maxLength # NaN /\ Len(strValue) > maxLength
        THEN Err(name \o " exceeds " \o ToString(maxLength) \o " characters", name)
        ELSE NoError

\* The type rules of a scalar field whose value is not empty: each rule's if in
\* the order of the loop body (a field has one type, so one rule applies)
ValidateTyped(name, field, strValue) ==
    IF field.type = "email"
    THEN (IF EmailRegexTest(strValue) THEN NoError
          ELSE Err(name \o " must be a valid email address", name))
    ELSE IF field.type = "url"
    THEN (IF UrlParses(strValue) THEN NoError ELSE Err(name \o " must be a valid URL", name))
    ELSE IF field.type = "phone" THEN ValidatePhone(name, field, strValue)
    ELSE IF field.type = "text" \/ field.type = "description"
    THEN ValidateText(name, field, strValue)
    ELSE IF field.type = "number" \/ field.type = "amount"
    THEN ValidateNumeric(name, field, strValue)
    ELSE IF field.type = "datetime" \/ field.type = "date"
    THEN (IF DateParses(strValue) THEN NoError ELSE Err(name \o " must be a valid date", name))
    ELSE NoError

\* One iteration of validate's loop over Object.entries(schema) for a file field
ValidateFileField(name, field, files) ==
    IF field.required /\ ~Has(files, name)
    THEN Err(name \o " is required", name)
    ELSE IF Has(files, name) /\ validateFile(GetFile(files, name), field) # ""
    THEN Err(validateFile(GetFile(files, name), field), name)
    ELSE NoError

\* One iteration of validate's loop for a scalar field
ValidateScalarField(name, field, body) ==
    LET value == Get(body, name)
    IN  IF field.required /\ IsEmptyValue(value)
        THEN Err(name \o " is required", name)
        ELSE IF IsEmptyValue(value) THEN NoError
        ELSE ValidateTyped(name, field, Trim(String(value)))

\* One iteration of validate's loop
ValidateField(field, body, files) ==
    IF IsFileType(field.type) THEN ValidateFileField(field.name, field, files)
    ELSE ValidateScalarField(field.name, field, body)

\* The loop over the schema from entry i on: the first error returns
RECURSIVE ValidateFields(_, _, _, _)
ValidateFields(sch, i, body, files) ==
    IF i > Len(sch) THEN NoError
    ELSE IF ValidateField(sch[i], body, files) # NoError THEN ValidateField(sch[i], body, files)
    ELSE ValidateFields(sch, i + 1, body, files)

\* for (const key of Object.keys(body)) if (!schema[key]) return ...
RECURSIVE ExtraFieldCheck(_, _, _)
ExtraFieldCheck(sch, body, i) ==
    IF i > Len(body) THEN NoError
    ELSE IF ~SchemaLookupTruthy(sch, body[i].k)
    THEN Err("Extra field not allowed: " \o body[i].k, body[i].k)
    ELSE ExtraFieldCheck(sch, body, i + 1)

\* for (const key of Object.keys(files)) if (!schema[key] || not a file type) return ...
RECURSIVE ExtraFileCheck(_, _, _)
ExtraFileCheck(sch, files, i) ==
    IF i > Len(files) THEN NoError
    ELSE IF ~SchemaLookupTruthy(sch, files[i].k)
            \/ ~(Declared(sch, files[i].k) /\ IsFileType(FieldOf(sch, files[i].k).type))
    THEN Err("Extra file not allowed: " \o files[i].k, files[i].k)
    ELSE ExtraFileCheck(sch, files, i + 1)

\* validate(body, files) against a schema
validate(sch, body, files) ==
    IF ValidateFields(sch, 1, body, files) # NoError THEN ValidateFields(sch, 1, body, files)
    ELSE IF ExtraFieldCheck(sch, body, 1) # NoError THEN ExtraFieldCheck(sch, body, 1)
    ELSE ExtraFileCheck(sch, files, 1)

\* ------------------------------------------------------------------ buildInsertQuery

\* parseFloat(value): the longest prefix of the form [+-]digits[.digits] after
\* leading white space, NaN when there is none. (No value drawn below has an
\* exponent or starts with a bare point.)
ParseFloat(s) ==
    LET u == TrimStart(s)
        neg == u # <<>> /\ Head(u) = "-"
        v == IF u # <<>> /\ Head(u) \in {"-", "+"} THEN Tail(u) ELSE u
        int == LeadingDigits(v)
        afterInt == SubSeq(v, Len(int) + 1, Len(v))
        frac == IF afterInt # <<>> /\ Head(afterInt) = "." THEN LeadingDigits(Tail(afterInt))
                ELSE <<>>
    IN  IF int = <<>> THEN [nan |-> TRUE, neg |-> FALSE, int |-> <<>>, frac |-> <<>>]
        ELSE [nan |-> FALSE, neg |-> neg, int |-> AbsParseInt(int), frac |-> StripTrailingZeros(frac \o <<"0">>)]

\* Number.isInteger(num)
NumberIsInteger(num) == ~num.nan /\ num.frac = <<"0">>

\* The values bound to the statement
BoundBuffer(file) == [t |-> "buffer", file |-> file]

BoundNumber(num) == [t |-> "number", num |-> num]

BoundBoolean(b) == [t |-> "boolean", b |-> b]

BoundString(s) == [t |-> "string", s |-> s]

\* new Date(value) is a valid date: a number and null are epoch offsets
DateValueParses(value) ==
    value.t = "number" \/ value.t = "null" \/ (value.t = "string" /\ DateParses(value.s))

\* date.toISOString() of a value that parses (the process runs in UTC)
ToISOString(value) ==
    IF value.t # "string" THEN <<"1", "9", "7", "0">>
    ELSE IF Len(value.s) = 10 THEN value.s \o <<"T", "0", "0", ":", "0", "0", ":", "0", "0", ".", "0", "0", "0", "Z">>
    ELSE value.s \o <<":", "0", "0", ".", "0", "0", "0", "Z">>

\* The yesno conversion
YesNo(value) ==
    \/ ToLowerCase(String(value)) = <<"t", "r", "u", "e">>
    \/ value = StrV(<<"1">>)
    \/ value = NumV(1)
    \/ value = StrV(<<"y", "e", "s">>)
    \/ value = StrV(<<"o", "n">>)

Quoted(name) == "\"" \o name \o "\""

Raise(message, name) == [raised |-> TRUE, error |-> Err(message, name), columns |-> <<>>, values |-> <<>>]

\* The type conversion of a present scalar field: a raise, or the value bound
Convert(name, field, value) ==
    IF field.type = "number"
    THEN (IF ~NumberIsInteger(ParseFloat(String(value)))
          THEN Raise(name \o " must be an integer", name)
          ELSE [raised |-> FALSE, v |-> BoundNumber(ParseFloat(String(value)))])
    ELSE IF field.type = "amount"
    THEN [raised |-> FALSE, v |-> BoundNumber(ParseFloat(String(value)))]
    ELSE IF field.type = "yesno"
    THEN [raised |-> FALSE, v |-> BoundBoolean(YesNo(value))]
    ELSE IF field.type \in {"text", "description", "email", "phone", "url"}
    THEN [raised |-> FALSE, v |-> BoundString(Trim(String(value)))]
    ELSE IF field.type = "datetime" \/ field.type = "date"
    THEN (IF ~DateValueParses(value)
          THEN Raise(name \o " must be a valid date", name)
          ELSE [raised |-> FALSE, v |-> BoundString(ToISOString(value))])
    ELSE [raised |-> FALSE, v |-> value]

\* The loop of buildInsertQuery from entry i on, with the columns and values
\* pushed so far
RECURSIVE BuildFields(_, _, _, _, _, _)
BuildFields(sch, i, body, files, columns, values) ==
    IF i > Len(sch) THEN [raised |-> FALSE, error |-> NoError, columns |-> columns, values |-> values]
    ELSE LET name == sch[i].name
             field == sch[i]
         IN  IF IsFileType(field.type)
             THEN (IF Has(files, name)
                   THEN BuildFields(sch, i + 1, body, files,
                                    Append(columns, Quoted(name)),
                                    Append(values, BoundBuffer(GetFile(files, name))))
                   ELSE IF field.required THEN Raise(name \o " is required", name)
                   ELSE BuildFields(sch, i + 1, body, files, columns, values))
             ELSE IF ~Has(body, name)
             THEN (IF field.required THEN Raise(name \o " is required", name)
                   ELSE BuildFields(sch, i + 1, body, files, columns, values))
             ELSE IF Convert(name, field, Get(body, name)).raised
             THEN Convert(name, field, Get(body, name))
             ELSE BuildFields(sch, i + 1, body, files,
                              Append(columns, Quoted(name)),
                              Append(values, Convert(name, field, Get(body, name)).v))

\* Placeholders numbered from zero: values.map((_, i) => `$${i}`)
PlaceholdersFromZero(values) == [i \in 1..Len(values) |-> "$" \o ToString(i - 1)]

\* values.map((_, i) => `$${i + 1}`)
Placeholders(values) == [i \in 1..Len(values) |-> "$" \o ToString(i)]

\* buildInsertQuery(body, files) against a schema: a raise, or the columns of
\* the statement text, its placeholders and the values
buildInsertQuery(sch, body, files) ==
    LET r == BuildFields(sch, 1, body, files, <<>>, <<>>)
    IN  [raised |-> r.raised, error |-> r.error, columns |-> r.columns,
         placeholders |-> Placeholders(r.values), values |-> r.values]

\* ------------------------------------------------------------------ inputs

\* The widest power of ten among the number literals drawn (10^21 is where
\* Number::toString changes notation)
MaxExp == 22

\* The longest run of digits among the phone values drawn
MaxPhoneLen == 17

Nines(n) == [i \in 1..n |-> "9"]

Ones(n) == [i \in 1..n |-> "1"]

WideLiterals == {PowerOfTen(k) : k \in 0..MaxExp} \cup {Nines(n) : n \in 1..MaxExp}

NumberStrings ==
    WideLiterals
      \cup { <<"2", "1", "4", "7", "4", "8", "3", "6", "4", "7">>, <<"2", "1", "4", "7", "4", "8", "3", "6", "4", "8">>, <<"-", "2", "1", "4", "7", "4", "8", "3", "6", "4", "8">>, <<"4", "2">>, <<"-", "5">>, <<"0", "0", "7">>, <<" ", "1", "2", " ">>,
             <<"2", ".", "5">>, <<"2", ".", "0">>, <<"a", "b", "c">>, <<"+", "5">>, <<"1", "2", "a">>, <<"-">>, <<"1", ".">> }

PhoneStrings ==
    {Ones(n) : n \in 9..MaxPhoneLen} \cup {<<"+">> \o Ones(n) : n \in 9..MaxPhoneLen}
      \cup { <<"9", "8", "7", "6", "5", "4", "3", "2", "1", "0">>, <<"1", "2", "3", "4", "5">>, <<"(", "9", "8", "7", ")", " ", "6", "5", "4", "-", "3", "2", "1", "0">>, <<"9", "8", "7", "-", "6", "5", "4", "-", "3", "2", "1", "0">>, <<" ", "9", "8", "7", "6", "5", " ", "4", "3", "2", "1", "0", " ">>,
             <<"9", "8", "7", "6", "5", "a", "3", "2", "1", "0">>, <<"9", "8", "7", "6", "5", "4", "3", "2", "1", "0", "+">>, <<"-", "-", "-", "-", "-", "-", "-", "-", "-", "-">>, <<"+", "9", "1", " ", "9", "8", "7", "6", "5", "-", "4", "3", "2", "1", "0">>,
             <<"(", "1", ")", "(", "2", ")", "(", "3", ")", "(", "4", ")", "(", "5", ")">>, <<"(", "1", ")", "(", "2", ")", "(", "3", ")", "(", "4", ")", "(", "5", ")", "6">> }

YesNoValues ==
    {StrV(s) : s \in { <<"t", "r", "u", "e">>, <<"T", "R", "U", "E">>, <<"T", "r", "u", "e">>, <<"1">>, <<"y", "e", "s">>, <<"Y", "E", "S">>, <<"Y", "e", "s">>, <<"o", "n">>,
                       <<"O", "n">>, <<"O", "N">>, <<"0">>, <<"n", "o">>, <<"f", "a", "l", "s", "e">>, <<" ", "y", "e", "s">>, <<"y">>, <<"1", "1">> }}
      \cup {NumV(0), NumV(1), NumV(2)}

EmptyValues == {NullV, StrV(<<>>), StrV(<<" ", " ">>), StrV(<<" ", "\t">>)}

\* The values drawn for a field of the deployed schema: one the rules accept,
\* the empty ones, and one per rule of its type that the rule rejects
DeployedValues(field) ==
    CASE field.name = "name" -> {StrV(<<"A", "l">>)}
      [] field.name = "phone" ->
            {StrV(<<"9", "8", "7", "6", "5", "4", "3", "2", "1", "0">>), StrV(<<"1", "2", "3", "4", "5">>)}
      [] field.name = "email" -> {StrV(<<"a", "@", "b", ".", "c">>), StrV(<<"a", "@", "b">>)}
      [] field.name = "ring_size" -> {StrV(<<"1", "2", "0", ".", "5", "0">>), StrV(<<" ", " ">>)}
      [] field.name = "caret" -> {StrV(<<"2">>), StrV(<<"2", ".", "5">>)}
      [] OTHER -> {}

\* The values drawn for a field of the other schemas, by its type
TypeValues(field) ==
    CASE field.type = "number" -> {StrV(s) : s \in NumberStrings} \cup EmptyValues
      [] field.type = "phone" -> {StrV(s) : s \in PhoneStrings} \cup EmptyValues
      [] field.type = "yesno" -> YesNoValues
      [] field.type = "amount" -> {StrV(<<"1", "2", "0", ".", "5", "0">>), StrV(<<"-", "1", ".", "5">>), StrV(<<"1", ".", "2", "3", "4">>), StrV(<<>>)}
      [] field.type \in {"date", "datetime"} ->
            {StrV(<<"2", "0", "2", "4", "-", "0", "1", "-", "1", "5">>), StrV(<<"2", "0", "2", "4", "-", "0", "1", "-", "1", "5", "T", "1", "0", ":", "3", "0">>), StrV(<<"2", "0", "2", "4", "-", "1", "3", "-", "0", "1">>), StrV(<<"a", "b", "c">>),
             StrV(<<>>), StrV(<<" ", " ">>)}
      [] field.type = "url" -> {StrV(<<"h", "t", "t", "p", "s", ":", "/", "/", "a", ".", "b", "/", "c">>), StrV(<<"m", "a", "i", "l", "t", "o", ":", "x">>), StrV(<<"a", ".", "b">>), StrV(<<"h", "t", "t", "p", ":", "/", "/">>)}
      [] field.type = "email" -> {StrV(<<"a", "@", "b", ".", "c">>), StrV(<<"a", "@", "b">>), StrV(<<"a", " ", "b", "@", "c", ".", "d">>), StrV(<<"a", "@", "@", "b", ".", "c">>)}
      [] OTHER -> {StrV(<<"A", "l", "i", "c", "e">>), StrV(<<" ", " ", "B", "o", "b", " ">>), StrV(<<"a", "b", "c", "d", "e", "f">>), StrV(<<>>)}

\* The file sizes drawn: around each whole number of megabytes up to MaxFileMB
MaxFileMB == 11

FileSizes == {0} \cup {k * MegaByte + d : k \in {1, 5, 10, MaxFileMB}, d \in {-1, 0, 1}}

FileNames == { <<"a", ".", "p", "n", "g">>, <<"A", ".", "P", "N", "G">>, <<"a", ".", "p", "d", "f">>, <<"p", "n", "g">>, <<"a", ".", "p", "n", "g", ".", "e", "x", "e">> }

UploadedFile(size, originalname) == [size |-> size, originalname |-> originalname]

\* The files drawn for a field of the deployed schema, and for the others
DeployedFiles == {UploadedFile(1, <<"a", ".", "p", "n", "g">>), UploadedFile(10 * MegaByte + 1, <<"a", ".", "p", "n", "g">>)}

AllFiles == {UploadedFile(s, n) : s \in FileSizes, n \in FileNames}

\* ------------------------------------------------------------------ schemas drawn

NumberSchema(limit, required, allowNegative) ==
    << Field("qty", "number", limit, <<>>, required, allowNegative, NoFileConfig) >>

PhoneSchema(limit) ==
    << Field("phone", "phone", limit, <<>>, FALSE, FALSE, NoFileConfig) >>

FileSchema(limit, required, fileConfig) ==
    << Field("doc", "file", limit, <<>>, required, FALSE, fileConfig) >>

YesNoSchema ==
    << Field("agree", "yesno", <<>>, <<>>, TRUE, FALSE, NoFileConfig),
       Field("note", "description", <<"5">>, <<>>, FALSE, FALSE, NoFileConfig) >>

OptionalSchema ==
    << Field("when", "date", <<>>, <<>>, FALSE, FALSE, NoFileConfig),
       Field("site", "url", <<>>, <<>>, FALSE, FALSE, NoFileConfig),
       Field("at", "datetime", <<>>, <<>>, TRUE, FALSE, NoFileConfig) >>

\* The schema is the program's configuration: the deployed one, and others
\* that give every semantic type, limit and file constraint the rules read.
InputSchemas ==
    { schema, YesNoSchema, OptionalSchema,
      NumberSchema(<<>>, TRUE, TRUE), NumberSchema(<<"2">>, TRUE, TRUE),
      NumberSchema(<<"9">>, FALSE, FALSE), NumberSchema(<<"1", "8">>, TRUE, TRUE),
      NumberSchema(<<"1", "9">>, FALSE, TRUE),
      PhoneSchema(<<>>), PhoneSchema(<<"1", "0">>), PhoneSchema(<<"1", "2">>),
      FileSchema(<<>>, TRUE, FileConfigAll(5)),
      FileSchema(<<>>, FALSE, FileConfigAll(10)),
      FileSchema(<<"5">>, TRUE, FileConfig(5, << <<".", "p", "d", "f">>, <<".", "P", "N", "G">> >>)),
      FileSchema(<<"1", "1">>, FALSE, FileConfig(10, << <<".", "p", "n", "g">> >>)) }

ValuesFor(sch, field) == IF sch = schema THEN DeployedValues(field) ELSE TypeValues(field)

FilesFor(sch) == IF sch = schema THEN DeployedFiles ELSE AllFiles

\* The declared scalar keys of a body, each missing or with a value drawn for it
RECURSIVE DeclaredBodies(_, _)
DeclaredBodies(sch, i) ==
    IF i > Len(sch) THEN {<<>>}
    ELSE LET rest == DeclaredBodies(sch, i + 1)
         IN  IF IsFileType(sch[i].type) THEN rest
             ELSE rest \cup {<<[k |-> sch[i].name, v |-> v]>> \o b : v \in ValuesFor(sch, sch[i]), b \in rest}

\* The declared file keys of a file map, each missing or with a file drawn for it
RECURSIVE DeclaredFiles(_, _)
DeclaredFiles(sch, i) ==
    IF i > Len(sch) THEN {<<>>}
    ELSE LET rest == DeclaredFiles(sch, i + 1)
         IN  IF ~IsFileType(sch[i].type) THEN rest
             ELSE rest \cup {<<[k |-> sch[i].name, v |-> f]>> \o b : f \in FilesFor(sch), b \in rest}

Pair(key, value) == [k |-> key, v |-> value]

\* Keys the client adds: undeclared ones, the server-assigned columns, names
\* Object.prototype defines, and a declared file field sent as text
ExtraBodyKeys(sch) ==
    { <<>>, <<Pair("foo", StrV(<<"b", "a", "r">>))>>, <<Pair("constructor", StrV(<<"x">>))>> }
      \cup {<<Pair(sch[i].name, StrV(<<"x">>))>> : i \in {j \in 1..Len(sch) : IsFileType(sch[j].type) /\ j < 6}}
      \cup (IF sch = schema THEN {}
            ELSE { <<Pair("id", StrV(<<"7">>)), Pair("foo", StrV(<<"b", "a", "r">>))>>,
                   <<Pair("created_at", StrV(<<"2", "0", "2", "4">>))>>,
                   <<Pair("toString", StrV(<<"x">>)), Pair("foo", StrV(<<"b", "a", "r">>))>> })

\* File keys the client adds: an undeclared one, and a declared scalar field
\* sent as a file
ExtraFileKeys(sch) ==
    { <<>>, <<Pair("zz", UploadedFile(1, <<"a", ".", "p", "n", "g">>))>> }
      \cup (IF sch = schema \/ IsFileType(sch[1].type) THEN {}
            ELSE {<<Pair(sch[1].name, UploadedFile(1, <<"a", ".", "p", "n", "g">>))>>})

\* The records drawn for a schema. Extra keys arrive after the declared ones;
\* one undeclared key also arrives before them.
Bodies(sch) ==
    {d \o e : d \in DeclaredBodies(sch, 1), e \in ExtraBodyKeys(sch)}
      \cup {<<Pair("bar", StrV(<<"x">>))>> \o d : d \in DeclaredBodies(sch, 1)}

FileMaps(sch) == {d \o e : d \in DeclaredFiles(sch, 1), e \in ExtraFileKeys(sch)}

\* ------------------------------------------------------------------ state

VARIABLES
    cfg,        \* the schema in force
    input,      \* the record under validation: [body, files]
    verdict,    \* what validate returned for it
    query,      \* what buildInsertQuery returned for it
    vpc,        \* "input", "validated", "built"
    proc,       \* the process: "running", "exited", "crashed"
    ddl,        \* the startup table creation: "running", "done", "failed"
    tableExists,\* whether the table exists in the database
    pc,         \* each save request's place in the handler
    reqIn,      \* each save request's record
    held,       \* the pooled connection each request holds, 0 for none
    conns,      \* each connection: busy, its transaction, the rows it has pending
    rows,       \* the requests whose row is committed in the table
    caught,     \* the error the handler's catch block received
    resp,       \* the responses sent to each request
    log         \* the statements each request issued on its connection, with outcomes

pvars == <<cfg, input, verdict, query, vpc>>

hvars == <<proc, ddl, tableExists, pc, reqIn, held, conns, rows, caught, resp, log>>

vars == <<cfg, input, verdict, query, vpc,
          proc, ddl, tableExists, pc, reqIn, held, conns, rows, caught, resp, log>>

\* ------------------------------------------------------------------ the save handler

\* The save requests in flight
NReq == 2

\* The connections of the pool (pg's Pool opens up to its max, 10 by default)
PoolMax == 2

Req == 1..NReq

Conn == 1..PoolMax

NoInput == [body |-> <<>>, files |-> <<>>]

NoQuery == [raised |-> FALSE, error |-> NoError, columns |-> <<>>, placeholders |-> <<>>, values |-> <<>>]

IdleConn == [busy |-> FALSE, tx |-> "none", pending |-> {}]

\* ------------------------------------------------------------------ the validator and the builder as functions

InitV ==
    /\ cfg \in InputSchemas
    /\ input \in {[body |-> b, files |-> f] : b \in Bodies(cfg), f \in FileMaps(cfg)}
    /\ verdict = NoError
    /\ query = NoQuery
    /\ vpc = "input"
    /\ proc = "running"
    /\ ddl = "running"
    /\ tableExists = FALSE
    /\ pc = [r \in Req |-> "idle"]
    /\ reqIn = [r \in Req |-> NoInput]
    /\ held = [r \in Req |-> 0]
    /\ conns = [c \in Conn |-> IdleConn]
    /\ rows = {}
    /\ caught = [r \in Req |-> ""]
    /\ resp = [r \in Req |-> <<>>]
    /\ log = [r \in Req |-> <<>>]

\* validate(req.body, files)
DoValidate ==
    /\ vpc = "input"
    /\ verdict' = validate(cfg, input.body, input.files)
    /\ vpc' = "validated"
    /\ UNCHANGED <<cfg, input, query>>
    /\ UNCHANGED hvars

\* buildInsertQuery(req.body, files), applied to every record drawn
DoBuild ==
    /\ vpc = "validated"
    /\ query' = buildInsertQuery(cfg, input.body, input.files)
    /\ vpc' = "built"
    /\ UNCHANGED <<cfg, input, verdict>>
    /\ UNCHANGED hvars

NextV == DoValidate \/ DoBuild

SpecV == InitV /\ [][NextV]_vars

\* ------------------------------------------------------------------ claims about validate

Validated == vpc \in {"validated", "built"}

Built == vpc = "built"

\* The error of one declared field, taken on its own
FieldError(i) == ValidateField(cfg[i], input.body, input.files)

FieldPasses(i) == FieldError(i) = NoError

EarlierPass(i) == \A j \in 1..(i - 1) : FieldPasses(j)

Violating == {i \in 1..Len(cfg) : ~FieldPasses(i)}

\* The verdict is an unknown-key error
IsExtraKeyError(v) ==
    \/ v.error = "Extra field not allowed: " \o v.field
    \/ v.error = "Extra file not allowed: " \o v.field

\* validate returned no error of declared field i
NoErrorOf(i) == verdict.field # cfg[i].name \/ IsExtraKeyError(verdict)

Least(S) == CHOOSE i \in S : \A j \in S : i <= j

\* The keys of the record that name no declared field, and the keys of the
\* file map that name no declared photo or file field
IsExtraBodyKey(key) == ~Declared(cfg, key)

IsExtraFileKey(key) == ~(Declared(cfg, key) /\ IsFileType(FieldOf(cfg, key).type))

ExtraKeysInOrder ==
    SelectSeq(Keys(input.body), IsExtraBodyKey) \o SelectSeq(Keys(input.files), IsExtraFileKey)

\* C2 (first part), which holds: when declared fields violate rules, the one
\* error returned is that of the earliest-declared violating field.
C2_FirstInDeclarationOrder ==
    Validated /\ Violating # {} => verdict = FieldError(Least(Violating))

\* C2: validate returns the first violation in schema declaration order, and
\* returns null exactly when no declared field and no present key violates a
\* rule (an undeclared key being a violation).
C2_FirstViolationOrNull ==
    Validated =>
        /\ (Violating # {} => verdict = FieldError(Least(Violating)))
        /\ (verdict = NoError <=> (Violating = {} /\ ExtraKeysInOrder = <<>>))

\* A value that is absent, null, empty or white space only
IsAbsentOrBlank(obj, name) ==
    \/ ~Has(obj, name)
    \/ Get(obj, name) = NullV
    \/ (Get(obj, name).t = "string" /\ IsBlank(Get(obj, name).s))

RequiredScalars == {i \in 1..Len(cfg) : cfg[i].required /\ ~IsFileType(cfg[i].type)}

RequiredError(i) == [error |-> cfg[i].name \o " is required", field |-> cfg[i].name]

\* C3 as stated: for every required scalar field f, validate on a record in
\* which f is absent, null, empty or white space only yields "<f> is required"
\* naming f.
C3_RequiredAlways ==
    Validated =>
        \A i \in RequiredScalars :
            IsAbsentOrBlank(input.body, cfg[i].name) => verdict = RequiredError(i)

\* C3 amended: for every required scalar field f, validate on a record in which
\* f is absent, null, empty or white space only, and in which no field declared
\* before f violates a rule, yields "<f> is required" naming f.
C3_RequiredWhenFirst ==
    Validated =>
        \A i \in RequiredScalars :
            IsAbsentOrBlank(input.body, cfg[i].name) /\ EarlierPass(i) => verdict = RequiredError(i)

\* A required scalar declared after other fields (ring_size of the deployed
\* schema) is white space only or missing, and validate has named it.
C3_Witness ==
    /\ Validated
    /\ \E i \in RequiredScalars :
          /\ i > 3
          /\ IsAbsentOrBlank(input.body, cfg[i].name)
          /\ verdict = RequiredError(i)

FileFields == {i \in 1..Len(cfg) : IsFileType(cfg[i].type) /\ cfg[i].fileConfig.has}

ExtensionAllowed(i, file) ==
    \/ cfg[i].fileConfig.all
    \/ \E e \in 1..Len(cfg[i].fileConfig.extensions) :
          EndsWith(ToLowerCase(file.originalname), ToLowerCase(cfg[i].fileConfig.extensions[e]))

\* C4: a supplied file larger than fileConfig.maxSize megabytes is always
\* rejected by validate, whatever the other fields hold; a supplied file within
\* that size and with an allowed extension (or "all") gives no error for its
\* field.
C4_FileSizeLimit ==
    Validated =>
        \A i \in FileFields :
            Has(input.files, cfg[i].name) =>
                LET file == GetFile(input.files, cfg[i].name)
                IN  /\ (file.size > cfg[i].fileConfig.maxSize * MegaByte => verdict # NoError)
                    /\ (file.size <= cfg[i].fileConfig.maxSize * MegaByte /\ ExtensionAllowed(i, file)
                          => NoErrorOf(i))

\* C5: when every declared field passes, a key of the body that is no declared
\* field, or a key of the file map that is no declared photo or file field,
\* makes validate return an error naming the first such key (body keys before
\* file keys); an error of a declared field always comes before it.
C5_ExtraKeyRejected ==
    Validated =>
        /\ (Violating = {} /\ ExtraKeysInOrder # <<>>
              => verdict # NoError /\ verdict.field = ExtraKeysInOrder[1])
        /\ (Violating # {} => verdict = FieldError(Least(Violating)))

NumberFields == {i \in 1..Len(cfg) : cfg[i].type = "number"}

\* The digits of the absolute value of a literal -?digits
SignificantDigits(s) == StripLeadingZeros(IF Head(s) = "-" THEN Tail(s) ELSE s)

IsIntegerLiteral(s) ==
    LET u == IF s # <<>> /\ Head(s) = "-" THEN Tail(s) ELSE s
    IN  u # <<>> /\ AllDigits(u)

DigitLimit(i) == ParseIntOr(cfg[i].limit, 10)

\* The largest value of the column type the type mapper selects, by its digits
FitsStorage(i, d) ==
    CASE TypeMapNumber(cfg[i]) = "INTEGER" -> ~DecGreater(d, Int32Max)
      [] TypeMapNumber(cfg[i]) = "BIGINT" ->
            ~DecGreater(d, <<"9", "2", "2", "3", "3", "7", "2", "0", "3", "6", "8", "5", "4", "7", "7", "5", "8", "0", "7">>)
      [] OTHER -> TRUE

\* C6: every value validate accepts for a number field is an integer literal
\* without decimal point whose absolute value has at most limit digits (10 by
\* default) and fits the column type selected for that limit; a value with a
\* decimal point is rejected with "<f> must be an integer (no decimals)", one
\* with more than limit digits with "<f> exceeds <limit> digits".
C6_NumberAccepted ==
    Validated =>
        \A i \in NumberFields :
            LET name == cfg[i].name
                value == Get(input.body, name)
                s == Trim(String(value))
            IN  value.t = "string" /\ ~IsBlank(value.s) /\ EarlierPass(i) =>
                  /\ (NoErrorOf(i) =>
                        /\ IsIntegerLiteral(s)
                        /\ Len(SignificantDigits(s)) <= DigitLimit(i)
                        /\ FitsStorage(i, SignificantDigits(s)))
                  /\ (NumberRegexTest(s) /\ Includes(s, ".") =>
                        verdict = Err(name \o " must be an integer (no decimals)", name))
                  /\ (IsIntegerLiteral(s) /\ (cfg[i].allowNegative \/ Head(s) # "-")
                        /\ Len(SignificantDigits(s)) > DigitLimit(i) =>
                        verdict = Err(name \o " exceeds " \o ToString(DigitLimit(i)) \o " digits", name))

PhoneFields == {i \in 1..Len(cfg) : cfg[i].type = "phone"}

IsPhoneChar(c) == IsDigit(c) \/ c \in {"-", "(", ")"}

PhoneLimit(i) == ParseIntOr(cfg[i].limit, 15)

DigitCount(s) == Cardinality({k \in 1..Len(s) : IsDigit(s[k])})

\* The value without white space has 10 to 15 characters, each a digit, a
\* hyphen or a parenthesis, a '+' being allowed as the first of them
PhoneShapeCounted(s) ==
    LET w == SelectSeq(s, LAMBDA c : ~IsSpace(c))
    IN  /\ Len(w) >= 10
        /\ Len(w) <= 15
        /\ \A k \in 1..Len(w) : IsPhoneChar(w[k]) \/ (k = 1 /\ w[k] = "+")

\* The value without white space is an optional '+' followed by 10 to 15
\* characters, each a digit, a hyphen or a parenthesis
PhoneShapeAfterPlus(s) ==
    LET w == SelectSeq(s, LAMBDA c : ~IsSpace(c))
        r == IF w # <<>> /\ w[1] = "+" THEN SubSeq(w, 2, Len(w)) ELSE w
    IN  /\ Len(r) >= 10
        /\ Len(r) <= 15
        /\ \A k \in 1..Len(r) : IsPhoneChar(r[k])

\* What the claim says of phone field i, given whether its value has the shape
PhoneVerdictIs(i, shapeOk) ==
    LET name == cfg[i].name
        value == Get(input.body, name)
    IN  /\ (NoErrorOf(i) <=> (shapeOk /\ DigitCount(value.s) <= PhoneLimit(i)))
        /\ (~shapeOk => verdict = Err(name \o " must be a valid phone number", name))
        /\ (shapeOk /\ DigitCount(value.s) > PhoneLimit(i) =>
              verdict = Err(name \o " exceeds " \o ToString(PhoneLimit(i)) \o " digits", name))

\* The phone fields validate reaches with a non-blank string value
PhoneFieldsChecked ==
    {i \in PhoneFields : /\ Get(input.body, cfg[i].name).t = "string"
                         /\ ~IsBlank(Get(input.body, cfg[i].name).s)
                         /\ EarlierPass(i)}

\* C7 as stated: validate accepts a non-blank phone value iff, white space
\* removed, it consists of 10 to 15 characters drawn from digits, an optional
\* leading '+', hyphens and parentheses, and its digits do not exceed the
\* field's limit (15 by default); a shape failure yields "<f> must be a valid
\* phone number" and comes before "<f> exceeds <limit> digits".
C7_PhoneCounted ==
    Validated =>
        \A i \in PhoneFieldsChecked :
            PhoneVerdictIs(i, PhoneShapeCounted(Get(input.body, cfg[i].name).s))

\* C7 amended: validate accepts a non-blank phone value iff, white space
\* removed, it is an optional leading '+' followed by 10 to 15 characters drawn
\* from digits, hyphens and parentheses (the '+' is not one of the 10 to 15),
\* and its digits do not exceed the field's limit (15 by default); a shape
\* failure yields "<f> must be a valid phone number" and comes before
\* "<f> exceeds <limit> digits".
C7_PhoneAfterPlus ==
    Validated =>
        \A i \in PhoneFieldsChecked :
            PhoneVerdictIs(i, PhoneShapeAfterPlus(Get(input.body, cfg[i].name).s))

\* A phone value of 16 characters, a '+' and 15 digits, has been accepted.
C7_Witness ==
    /\ Validated
    /\ \E i \in PhoneFields :
          /\ Get(input.body, cfg[i].name) = StrV(<<"+">> \o Ones(15))
          /\ verdict = NoError

\* ------------------------------------------------------------------ claims about buildInsertQuery

Returned == Built /\ ~query.raised

\* A declared field the record supplies: a file for a photo or file field, a
\* key of the body for a scalar one
Supplied(field) ==
    IF IsFileType(field.type) THEN Has(input.files, field.name) ELSE Has(input.body, field.name)

SuppliedFields == SelectSeq(cfg, Supplied)

\* What binds to the column of a supplied field: the file's bytes, a boolean,
\* a number, or a string (trimmed for the textual types)
BoundAsClaimed(field, v) ==
    CASE IsFileType(field.type) -> v = [t |-> "buffer", file |-> GetFile(input.files, field.name)]
      [] field.type \in {"number", "amount"} -> v.t = "number"
      [] field.type = "yesno" -> v.t = "boolean"
      [] field.type \in {"text", "description", "email", "phone", "url"} ->
            v = [t |-> "string", s |-> Trim(String(Get(input.body, field.name)))]
      [] OTHER -> v.t = "string"

\* C8: buildInsertQuery returns columns and values of equal length, matched by
\* position, with placeholders $1..$n; the columns are the supplied file fields
\* and the present scalar fields in declaration order, absent fields being left
\* out, so never id or created_at, whatever keys the client sends.
C8_ColumnsMatchValues ==
    Returned =>
        /\ Len(query.columns) = Len(query.values)
        /\ Len(query.placeholders) = Len(query.values)
        /\ \A k \in 1..Len(query.placeholders) : query.placeholders[k] = "$" \o ToString(k)
        /\ query.columns = [k \in 1..Len(SuppliedFields) |-> "\"" \o SuppliedFields[k].name \o "\""]
        /\ \A k \in 1..Len(query.values) : BoundAsClaimed(SuppliedFields[k], query.values[k])
        /\ \A k \in 1..Len(query.columns) : query.columns[k] \notin {"\"id\"", "\"created_at\"", "id", "created_at"}

\* The builder returned a statement of two or more columns for a record that
\* omits a declared field and carries an id key.
C8_Witness ==
    /\ Returned
    /\ Has(input.body, "id")
    /\ Len(query.columns) >= 2
    /\ Len(query.columns) < Len(cfg)

YesNoFields == {i \in 1..Len(cfg) : cfg[i].type = "yesno" /\ Has(input.body, cfg[i].name)}

TruthyTexts == { <<"t", "r", "u", "e">>, <<"1">>, <<"y", "e", "s">>, <<"o", "n">> }

ColumnIndex(name) == CHOOSE k \in 1..Len(query.columns) : query.columns[k] = "\"" \o name \o "\""

\* C9: for a present yesno field buildInsertQuery binds true iff the text of
\* the value, case ignored, is one of "true", "1", "yes", "on", or the value is
\* the number 1, and binds false otherwise.
C9_YesNoCaseInsensitive ==
    Returned =>
        \A i \in YesNoFields :
            LET value == Get(input.body, cfg[i].name)
            IN  query.values[ColumnIndex(cfg[i].name)].b
                    = (ToLowerCase(String(value)) \in TruthyTexts \/ value = NumV(1))

\* ------------------------------------------------------------------ the save handler: inputs

\* The deployed schema with caret optional: a configuration under which a
\* record that passes validate makes buildInsertQuery raise
OptionalCaretSchema == [schema EXCEPT ![6].required = FALSE]

HandlerSchemas == {schema, OptionalCaretSchema}

SmallImage == UploadedFile(1, <<"a", ".", "p", "n", "g">>)

BothFiles == <<Pair("ss", SmallImage), Pair("aadhar", SmallImage)>>

\* Scenario A, Scenario B (ring_size omitted), and Scenario A with an empty caret
ValidRecord ==
    [body |-> <<Pair("name", StrV(<<"A", "l", "i", "c", "e">>)), Pair("phone", StrV(<<"9", "8", "7", "6", "5", "4", "3", "2", "1", "0">>)),
                Pair("ring_size", StrV(<<"1", "2", "0", ".", "5", "0">>)), Pair("caret", StrV(<<"2">>))>>,
     files |-> BothFiles]

NoRingSizeRecord ==
    [body |-> <<Pair("name", StrV(<<"A", "l", "i", "c", "e">>)), Pair("phone", StrV(<<"9", "8", "7", "6", "5", "4", "3", "2", "1", "0">>)),
                Pair("caret", StrV(<<"2">>))>>,
     files |-> BothFiles]

EmptyCaretRecord ==
    [body |-> <<Pair("name", StrV(<<"A", "l", "i", "c", "e">>)), Pair("phone", StrV(<<"9", "8", "7", "6", "5", "4", "3", "2", "1", "0">>)),
                Pair("ring_size", StrV(<<"1", "2", "0", ".", "5", "0">>)), Pair("caret", StrV(<<>>))>>,
     files |-> BothFiles]

HandlerRecords == {ValidRecord, NoRingSizeRecord, EmptyCaretRecord}

\* SQLSTATE codes a failed INSERT carries: the five the handler maps, and
\* another one
InsertErrorCodes == {"23505", "23502", "22P02", "22001", "22003", "40001"}

UndefinedTable == "42P01"

\* The code of a failed BEGIN, COMMIT or ROLLBACK (the connection is lost)
ConnectionFailure == "08006"

\* What the catch block holds when buildInsertQuery raised: an object with .error
CustomError == "custom"

Step(stmt, ok, c) == [stmt |-> stmt, ok |-> ok, conn |-> c]

\* ------------------------------------------------------------------ the save handler: startup

Init ==
    /\ cfg \in HandlerSchemas
    /\ input = NoInput
    /\ verdict = NoError
    /\ query = NoQuery
    /\ vpc = "off"
    /\ proc = "running"
    /\ ddl = "running"
    /\ tableExists \in BOOLEAN
    /\ pc = [r \in Req |-> "idle"]
    /\ reqIn \in [Req -> HandlerRecords]
    /\ held = [r \in Req |-> 0]
    /\ conns = [c \in Conn |-> IF c = 1 THEN [IdleConn EXCEPT !.busy = TRUE] ELSE IdleConn]
    /\ rows = {}
    /\ caught = [r \in Req |-> ""]
    /\ resp = [r \in Req |-> <<>>]
    /\ log = [r \in Req |-> <<>>]

\* await pool.query(createTableSQL()) resolves: the table exists, the pool
\* takes its connection back
DdlOk ==
    /\ proc = "running"
    /\ ddl = "running"
    /\ ddl' = "done"
    /\ tableExists' = TRUE
    /\ conns' = [conns EXCEPT ![1].busy = FALSE]
    /\ UNCHANGED <<proc, pc, reqIn, held, rows, caught, resp, log>>
    /\ UNCHANGED pvars

\* await pool.query(createTableSQL()) rejects: the catch block calls process.exit(1)
DdlFail ==
    /\ proc = "running"
    /\ ddl = "running"
    /\ ddl' = "failed"
    /\ proc' = "exited"
    /\ conns' = [conns EXCEPT ![1].busy = FALSE]
    /\ UNCHANGED <<tableExists, pc, reqIn, held, rows, caught, resp, log>>
    /\ UNCHANGED pvars

\* ------------------------------------------------------------------ the save handler: one request

Running(r, at) == proc = "running" /\ pc[r] = at

Logged(r, stmt, ok) == log' = [log EXCEPT ![r] = Append(@, Step(stmt, ok, held[r]))]

Response(status, success, code, field) ==
    [status |-> status, success |-> success, code |-> code, field |-> field]

Sent(r, response) == resp' = [resp EXCEPT ![r] = Append(@, response)]

\* The response of the catch block for the error it caught
ErrorResponse(r, error) ==
    CASE error = "23505" -> Response(409, FALSE, "DUPLICATE_ENTRY", "")
      [] error = "23502" -> Response(400, FALSE, "MISSING_REQUIRED", "")
      [] error = "22P02" -> Response(400, FALSE, "INVALID_FORMAT", "")
      [] error = CustomError ->
            Response(400, FALSE, "", buildInsertQuery(cfg, reqIn[r].body, reqIn[r].files).error.field)
      [] error = "22001" -> Response(400, FALSE, "DATA_TOO_LONG", "")
      [] error = "22003" -> Response(400, FALSE, "NUMERIC_OUT_OF_RANGE", "")
      [] OTHER -> Response(500, FALSE, "INTERNAL_ERROR", "")

\* A save request reaches the handler, which calls pool.connect()
Arrive(r) ==
    /\ Running(r, "idle")
    /\ pc' = [pc EXCEPT ![r] = "connect"]
    /\ UNCHANGED <<proc, ddl, tableExists, reqIn, held, conns, rows, caught, resp, log>>
    /\ UNCHANGED pvars

\* pool.connect() resolves with a connection no one holds
Acquire(r) ==
    /\ Running(r, "connect")
    /\ \E c \in Conn :
          /\ ~conns[c].busy
          /\ held' = [held EXCEPT ![r] = c]
          /\ conns' = [conns EXCEPT ![c].busy = TRUE]
    /\ pc' = [pc EXCEPT ![r] = "begin"]
    /\ UNCHANGED <<proc, ddl, tableExists, reqIn, rows, caught, resp, log>>
    /\ UNCHANGED pvars

\* pool.connect() rejects, outside the try: the handler's promise rejects
ConnectFail(r) ==
    /\ Running(r, "connect")
    /\ pc' = [pc EXCEPT ![r] = "rejected"]
    /\ UNCHANGED <<proc, ddl, tableExists, reqIn, held, conns, rows, caught, resp, log>>
    /\ UNCHANGED pvars

\* client.query("BEGIN") resolves (inside a transaction left open it only warns)
BeginOk(r) ==
    /\ Running(r, "begin")
    /\ conns[held[r]].tx # "failed"
    /\ conns' = [conns EXCEPT ![held[r]].tx = "open"]
    /\ Logged(r, "BEGIN", TRUE)
    /\ pc' = [pc EXCEPT ![r] = "validate"]
    /\ UNCHANGED <<proc, ddl, tableExists, reqIn, held, rows, caught, resp>>
    /\ UNCHANGED pvars

\* client.query("BEGIN") rejects
BeginFail(r) ==
    /\ Running(r, "begin")
    /\ Logged(r, "BEGIN", FALSE)
    /\ caught' = [caught EXCEPT ![r] = ConnectionFailure]
    /\ pc' = [pc EXCEPT ![r] = "catch"]
    /\ UNCHANGED <<proc, ddl, tableExists, reqIn, held, conns, rows, resp>>
    /\ UNCHANGED pvars

\* const validationError = validate(req.body, files)
Validate(r) ==
    /\ Running(r, "validate")
    /\ Logged(r, "validate", validate(cfg, reqIn[r].body, reqIn[r].files) = NoError)
    /\ pc' = [pc EXCEPT ![r] = IF validate(cfg, reqIn[r].body, reqIn[r].files) = NoError
                                THEN "build" ELSE "invalid"]
    /\ UNCHANGED <<proc, ddl, tableExists, reqIn, held, conns, rows, caught, resp>>
    /\ UNCHANGED pvars

\* if (validationError): ROLLBACK resolves, the 400 with the error is sent
InvalidRollbackOk(r) ==
    /\ Running(r, "invalid")
    /\ conns' = [conns EXCEPT ![held[r]].tx = "none", ![held[r]].pending = {}]
    /\ Logged(r, "ROLLBACK", TRUE)
    /\ Sent(r, Response(400, FALSE, "", validate(cfg, reqIn[r].body, reqIn[r].files).field))
    /\ pc' = [pc EXCEPT ![r] = "finally"]
    /\ UNCHANGED <<proc, ddl, tableExists, reqIn, held, rows, caught>>
    /\ UNCHANGED pvars

\* if (validationError): ROLLBACK rejects, inside the try
InvalidRollbackFail(r) ==
    /\ Running(r, "invalid")
    /\ Logged(r, "ROLLBACK", FALSE)
    /\ caught' = [caught EXCEPT ![r] = ConnectionFailure]
    /\ pc' = [pc EXCEPT ![r] = "catch"]
    /\ UNCHANGED <<proc, ddl, tableExists, reqIn, held, conns, rows, resp>>
    /\ UNCHANGED pvars

\* const query = buildInsertQuery(req.body, files)
Build(r) ==
    /\ Running(r, "build")
    /\ Logged(r, "build", ~buildInsertQuery(cfg, reqIn[r].body, reqIn[r].files).raised)
    /\ caught' = [caught EXCEPT ![r] = IF buildInsertQuery(cfg, reqIn[r].body, reqIn[r].files).raised
                                        THEN CustomError ELSE @]
    /\ pc' = [pc EXCEPT ![r] = IF buildInsertQuery(cfg, reqIn[r].body, reqIn[r].files).raised
                                THEN "catch" ELSE "insert"]
    /\ UNCHANGED <<proc, ddl, tableExists, reqIn, held, conns, rows, resp>>
    /\ UNCHANGED pvars

\* client.query(query.text, query.values) resolves: the row is in the
\* connection's open transaction
InsertOk(r) ==
    /\ Running(r, "insert")
    /\ tableExists
    /\ conns[held[r]].tx = "open"
    /\ conns' = [conns EXCEPT ![held[r]].pending = @ \cup {r}]
    /\ Logged(r, "INSERT", TRUE)
    /\ pc' = [pc EXCEPT ![r] = "commit"]
    /\ UNCHANGED <<proc, ddl, tableExists, reqIn, held, rows, caught, resp>>
    /\ UNCHANGED pvars

\* client.query(query.text, query.values) rejects: the transaction is aborted
InsertFail(r) ==
    /\ Running(r, "insert")
    /\ \E code \in (IF tableExists THEN InsertErrorCodes ELSE {UndefinedTable}) :
          caught' = [caught EXCEPT ![r] = code]
    /\ conns' = [conns EXCEPT ![held[r]].tx = "failed"]
    /\ Logged(r, "INSERT", FALSE)
    /\ pc' = [pc EXCEPT ![r] = "catch"]
    /\ UNCHANGED <<proc, ddl, tableExists, reqIn, held, rows, resp>>
    /\ UNCHANGED pvars

\* client.query("COMMIT") resolves: the pending rows are in the table
CommitOk(r) ==
    /\ Running(r, "commit")
    /\ rows' = rows \cup conns[held[r]].pending
    /\ conns' = [conns EXCEPT ![held[r]].tx = "none", ![held[r]].pending = {}]
    /\ Logged(r, "COMMIT", TRUE)
    /\ pc' = [pc EXCEPT ![r] = "respond"]
    /\ UNCHANGED <<proc, ddl, tableExists, reqIn, held, caught, resp>>
    /\ UNCHANGED pvars

\* client.query("COMMIT") rejects: the server has dropped the transaction
CommitFail(r) ==
    /\ Running(r, "commit")
    /\ conns' = [conns EXCEPT ![held[r]].tx = "none", ![held[r]].pending = {}]
    /\ Logged(r, "COMMIT", FALSE)
    /\ caught' = [caught EXCEPT ![r] = ConnectionFailure]
    /\ pc' = [pc EXCEPT ![r] = "catch"]
    /\ UNCHANGED <<proc, ddl, tableExists, reqIn, held, rows, resp>>
    /\ UNCHANGED pvars

\* res.json({ success: true, ... })
SendSuccess(r) ==
    /\ Running(r, "respond")
    /\ Sent(r, Response(200, TRUE, "", ""))
    /\ pc' = [pc EXCEPT ![r] = "finally"]
    /\ UNCHANGED <<proc, ddl, tableExists, reqIn, held, conns, rows, caught, log>>
    /\ UNCHANGED pvars

\* catch without the ROLLBACK: the response for the error is sent at once
CatchWithoutRollback(r) ==
    /\ Running(r, "catch")
    /\ Sent(r, ErrorResponse(r, caught[r]))
    /\ pc' = [pc EXCEPT ![r] = "finally"]
    /\ UNCHANGED <<proc, ddl, tableExists, reqIn, held, conns, rows, caught, log>>
    /\ UNCHANGED pvars

\* catch: ROLLBACK resolves, the response for the error is sent
CatchRollbackOk(r) ==
    /\ Running(r, "catch")
    /\ conns' = [conns EXCEPT ![held[r]].tx = "none", ![held[r]].pending = {}]
    /\ Logged(r, "ROLLBACK", TRUE)
    /\ Sent(r, ErrorResponse(r, caught[r]))
    /\ pc' = [pc EXCEPT ![r] = "finally"]
    /\ UNCHANGED <<proc, ddl, tableExists, reqIn, held, rows, caught>>
    /\ UNCHANGED pvars

\* catch: ROLLBACK rejects, and the catch block throws
CatchRollbackFail(r) ==
    /\ Running(r, "catch")
    /\ Logged(r, "ROLLBACK", FALSE)
    /\ pc' = [pc EXCEPT ![r] = "finally-thrown"]
    /\ UNCHANGED <<proc, ddl, tableExists, reqIn, held, conns, rows, caught, resp>>
    /\ UNCHANGED pvars

\* finally: client.release()
Release(r) ==
    /\ proc = "running"
    /\ pc[r] \in {"finally", "finally-thrown"}
    /\ conns' = [conns EXCEPT ![held[r]].busy = FALSE]
    /\ Logged(r, "release", TRUE)
    /\ held' = [held EXCEPT ![r] = 0]
    /\ pc' = [pc EXCEPT ![r] = IF pc[r] = "finally" THEN "done" ELSE "rejected"]
    /\ UNCHANGED <<proc, ddl, tableExists, reqIn, rows, caught, resp>>
    /\ UNCHANGED pvars

\* The handler's promise rejected and nothing handles it: the process dies of
\* the unhandled rejection (Express 4 on the node:18 image)
UnhandledRejection(r) ==
    /\ Running(r, "rejected")
    /\ proc' = "crashed"
    /\ UNCHANGED <<ddl, tableExists, pc, reqIn, held, conns, rows, caught, resp, log>>
    /\ UNCHANGED pvars

\* The handler's promise rejected and the router passes it on: the default
\* error handler answers 500 (Express 5)
RouterCatches(r) ==
    /\ Running(r, "rejected")
    /\ Sent(r, Response(500, FALSE, "", ""))
    /\ pc' = [pc EXCEPT ![r] = "done"]
    /\ UNCHANGED <<proc, ddl, tableExists, reqIn, held, conns, rows, caught, log>>
    /\ UNCHANGED pvars

Handle(r) ==
    \/ Arrive(r)
    \/ Acquire(r)
    \/ ConnectFail(r)
    \/ BeginOk(r)
    \/ BeginFail(r)
    \/ Validate(r)
    \/ InvalidRollbackOk(r)
    \/ InvalidRollbackFail(r)
    \/ Build(r)
    \/ InsertOk(r)
    \/ InsertFail(r)
    \/ CommitOk(r)
    \/ CommitFail(r)
    \/ SendSuccess(r)
    \/ CatchRollbackOk(r)
    \/ CatchRollbackFail(r)
    \/ Release(r)
    \/ UnhandledRejection(r)
    \/ RouterCatches(r)

Next == DdlOk \/ DdlFail \/ \E r \in Req : Handle(r)

Spec == Init /\ [][Next]_vars

\* ------------------------------------------------------------------ claims about the save handler

Succeeded(r) == \E i \in DOMAIN resp[r] : resp[r][i].success

\* The handler itself answered with a failure (the router's own 500 has no code)
Refused(r) ==
    \E i \in DOMAIN resp[r] :
        /\ ~resp[r][i].success
        /\ resp[r][i] # Response(500, FALSE, "", "")

SuccessPath(c) ==
    <<Step("BEGIN", TRUE, c), Step("validate", TRUE, c), Step("build", TRUE, c),
      Step("INSERT", TRUE, c), Step("COMMIT", TRUE, c)>>

StartsWithPath(steps, path) ==
    /\ Len(steps) >= Len(path)
    /\ SubSeq(steps, 1, Len(path)) = path

FailedAt(r, i) ==
    /\ log[r][i].stmt \in {"validate", "build", "INSERT", "COMMIT"}
    /\ ~log[r][i].ok

Statements(r) == {i \in DOMAIN log[r] : log[r][i].stmt # "release"}

LastStatement(r) == log[r][CHOOSE i \in Statements(r) : \A j \in Statements(r) : j <= i]

C10_TableBeforeService ==
    \A r \in Req : log[r] # <<>> => ddl = "done"

\* ------------------------------------------------------------------ claims about the pool's connections

Releases(r) == {i \in DOMAIN log[r] : log[r][i].stmt = "release"}

Holding(r) == pc[r] \in {"begin", "validate", "invalid", "build", "insert", "commit",
                         "respond", "catch", "finally", "finally-thrown"}

\* pool.connect() resolved for the request: it holds a connection or has
\* issued a statement on one
Obtained(r) == Holding(r) \/ log[r] # <<>>

\* C11 (safety part): a request that acquired a connection releases it once,
\* after its last statement; a connection is held by at most one request, and
\* is busy exactly while a request or the startup statement holds it.
C11_ReleasedOnce ==
    /\ \A r \in Req :
          /\ Holding(r) <=> held[r] # 0
          /\ Holding(r) => Releases(r) = {}
          /\ (Obtained(r) /\ ~Holding(r)) => Releases(r) = {Len(log[r])}
    /\ \A r, q \in Req : (r # q /\ held[r] # 0) => held[r] # held[q]
    /\ \A c \in Conn :
          conns[c].busy <=> ((\E r \in Req : held[r] = c) \/ (c = 1 /\ ddl = "running"))

\* C11: a request waiting for a connection is never left waiting in a process
\* that died of another request's handler, one that had obtained its
\* connection and released it; no connection can reach the waiting request
\* any more.
C11_WaiterNotStranded ==
    \A r, q \in Req :
        (pc[r] = "connect" /\ pc[q] = "rejected" /\ Obtained(q)) => proc # "crashed"

\* ------------------------------------------------------------------ claims about the responses

FailedStep(r, stmt) == \E i \in DOMAIN log[r] : log[r][i].stmt = stmt /\ ~log[r][i].ok

\* The machine code claimed for a storage rejection
MachineCode(code) ==
    CASE code = "23505" -> Response(409, FALSE, "DUPLICATE_ENTRY", "")
      [] code = "23502" -> Response(400, FALSE, "MISSING_REQUIRED", "")
      [] code = "22P02" -> Response(400, FALSE, "INVALID_FORMAT", "")
      [] code = "22001" -> Response(400, FALSE, "DATA_TOO_LONG", "")
      [] code = "22003" -> Response(400, FALSE, "NUMERIC_OUT_OF_RANGE", "")
      [] OTHER -> Response(500, FALSE, "INTERNAL_ERROR", "")

\* The response claimed for a request, from what failed while it was handled
ClaimedResponse(r) ==
    IF FailedStep(r, "BEGIN") \/ FailedStep(r, "COMMIT") \/ FailedStep(r, "ROLLBACK")
    THEN Response(500, FALSE, "INTERNAL_ERROR", "")
    ELSE IF FailedStep(r, "validate")
    THEN Response(400, FALSE, "", validate(cfg, reqIn[r].body, reqIn[r].files).field)
    ELSE IF FailedStep(r, "build")
    THEN Response(400, FALSE, "", buildInsertQuery(cfg, reqIn[r].body, reqIn[r].files).error.field)
    ELSE IF FailedStep(r, "INSERT")
    THEN MachineCode(caught[r])
    ELSE Response(200, TRUE, "", "")

\* The handler of the request ran to its end without its promise rejecting
Settled(r) ==
    /\ pc[r] = "done"
    /\ ~(\E i \in DOMAIN log[r] :
            /\ i > 1
            /\ log[r][i] = Step("ROLLBACK", FALSE, log[r][i].conn)
            /\ log[r][i - 1].stmt # "validate")

\* C12 (the handled paths): a request whose handler ran to its end, the
\* ROLLBACK of its catch block having resolved, got exactly the one response
\* claimed for what failed.
C12_HandledAnswered ==
    \A r \in Req :
        (Obtained(r) /\ Settled(r)) => resp[r] = <<ClaimedResponse(r)>>

\* C12: the handler of a request that acquired a connection never ends with
\* its promise rejected, so the process does not die of it; the request gets at
\* most one response, and once handled exactly the one claimed for what failed.
C12_AnsweredNotCrashed ==
    \A r \in Req :
        Obtained(r) =>
            /\ pc[r] # "rejected"
            /\ Len(resp[r]) <= 1
            /\ pc[r] = "done" => resp[r] = <<ClaimedResponse(r)>>

\* ------------------------------------------------------------------ claims about validate and buildInsertQuery together

\* A non-required scalar field whose key is present with a blank value: the
\* validator skips it
SkippedBlank(i) ==
    /\ ~IsFileType(cfg[i].type)
    /\ ~cfg[i].required
    /\ Has(input.body, cfg[i].name)
    /\ IsEmptyValue(Get(input.body, cfg[i].name))

\* C13: on every record for which validate returns null, buildInsertQuery
\* returns a statement and does not raise, also when a non-required number,
\* date or datetime field is present but blank.
C13_BuilderAgrees ==
    (Built /\ verdict = NoError) => ~query.raised

\* C13 (without skipped fields): on every record for which validate returns
\* null and in which no non-required scalar field is present but blank,
\* buildInsertQuery does not raise.
C13_BuilderAgreesOnChecked ==
    (Built /\ verdict = NoError /\ ~(\E i \in DOMAIN cfg : SkippedBlank(i))) => ~query.raised

====
